---- MODULE Spec2Model ----
(***************************************************************************)
(* A model of the ffix crate: the null-terminated array reader             *)
(* (src/array.rs) and the C string helpers (src/string.rs): StringReader,  *)
(* StringArray, StringArrayIter and expose_string.                         *)
(*                                                                         *)
(* Memory is modelled as a heap of blocks.  An address is the index of a   *)
(* block in `heap`; an address is never reused, so that the number of      *)
(* times a block was handed to libc free can be counted.                   *)
(***************************************************************************)
EXTENDS Integers, Sequences, FiniteSets, TLC

\* ---------------------------------------------------------------- bounds
MaxStrLen == 2      \* longest string given to expose_string / StringArray::new
MaxItems == 2       \* most items given to StringArray::new
MaxWrappers == 3    \* most StringArray values created in one behaviour
MaxLen == 3         \* most non-null slots of the array given to ArrayReader
MaxPast == 2        \* most ArrayIter::next calls after the first None
MaxExposed == 2     \* most calls of expose_string in one behaviour
MaxCap == 3         \* largest max_length given to StringReader::new

\* ------------------------------------------------------------- constants
NULL == 0
\* The bytes strings are made of: NUL, 'a', and the two bytes of U+00E9.
\* 195 followed by 169 is one well-formed UTF-8 scalar; 169 or 195 alone,
\* or 195 followed by anything else, is ill-formed.
Bytes == {0, 97, 195, 169}

SeqsUpTo(S, n) == UNION {[1..k -> S] : k \in 0..n}

\* ------------------------------------------------------------ UTF-8, NUL
IsCont(x) == x >= 128 /\ x <= 191

\* str::from_utf8 as used by CStr::to_str: well-formed UTF-8 only.
RECURSIVE Utf8Valid(_)
Utf8Valid(b) ==
    IF b = <<>> THEN TRUE
    ELSE LET x == b[1]
             n == Len(b)
         IN  IF x < 128 THEN Utf8Valid(Tail(b))
             ELSE IF x >= 194 /\ x <= 223
                  THEN n >= 2 /\ IsCont(b[2]) /\ Utf8Valid(SubSeq(b, 3, n))
             ELSE IF x >= 224 /\ x <= 239
                  THEN /\ n >= 3
                       /\ IsCont(b[2])
                       /\ (x = 224 => b[2] >= 160)
                       /\ (x = 237 => b[2] <= 159)
                       /\ IsCont(b[3])
                       /\ Utf8Valid(SubSeq(b, 4, n))
             ELSE IF x >= 240 /\ x <= 244
                  THEN /\ n >= 4
                       /\ IsCont(b[2])
                       /\ (x = 240 => b[2] >= 144)
                       /\ (x = 244 => b[2] <= 143)
                       /\ IsCont(b[3])
                       /\ IsCont(b[4])
                       /\ Utf8Valid(SubSeq(b, 5, n))
             ELSE FALSE

\* CString::new rejects a byte vector that holds a zero byte.
HasNul(b) == \E i \in DOMAIN b : b[i] = 0

\* CStr::from_ptr: the bytes of a buffer before its first zero byte.
RECURSIVE CStrBytes(_)
CStrBytes(cells) ==
    IF cells = <<>> \/ cells[1] = 0 THEN <<>>
    ELSE <<cells[1]>> \o CStrBytes(Tail(cells))

\* CStr::to_str().map(to_string).map_err(Error::from) on a terminated buffer.
DecodeCStr(cells) ==
    LET b == CStrBytes(cells)
    IN  IF Utf8Valid(b) THEN [tag |-> "Ok", val |-> b]
        ELSE [tag |-> "ErrUtf8", val |-> <<>>]

\* Values of the type &str: well-formed UTF-8 (a zero byte is well-formed).
Strs == {b \in SeqsUpTo(Bytes, MaxStrLen) : Utf8Valid(b)}
ItemLists == SeqsUpTo(Strs, MaxItems)

\* The item lists of the ownership specification: "a", "\u{e9}" and "\0".
OwnedLists == {<<>>, << <<97>> >>, << <<97>>, <<195, 169>> >>, << <<97>>, <<0>> >>}

\* ------------------------------------------------------------------ heap
VARIABLES
    given,  \* the items the program gives to StringArray::new
    heap,   \* sequence of blocks [kind, cells, live, frees]; address = index
    wr,     \* the StringArray values created so far (and their iterators)
    raw,    \* slot-array pointers held outside the library (from into_raw)
    res,    \* what the last constructor or expose_string call returned
    arr,    \* the slots of the foreign array an ArrayReader is made around
    ar,     \* the ArrayReader, or the ArrayIter that owns it
    yielded,\* what the calls of ArrayIter::next returned, in order
    touched,\* the slot indices ArrayIter::next has read
    got,    \* what the last call of ArrayReader::get returned
    sr      \* the StringReader

arVars == <<arr, ar, yielded, touched, got>>
vars == <<given, heap, wr, raw, res, arr, ar, yielded, touched, got, sr>>

\* libc malloc followed by the initialisation the caller performs.
malloc(h, kind, cells) ==
    Append(h, [kind |-> kind, cells |-> cells, live |-> TRUE, frees |-> 0])

\* libc free.
libc_free(h, p) ==
    [h EXCEPT ![p].live = FALSE, ![p].frees = @ + 1]

Zeros(n) == [i \in 1..n |-> 0]

\* ----------------------------------------------------------- expose_string
expose_string_MallocFirst(h, input) ==
    LET size == Len(input) + 1
        cstring == input \o <<0>>
        h1 == malloc(h, "bytes", SubSeq(cstring, 1, size))
    IN  IF HasNul(input)
        THEN [heap |-> h1, tag |-> "ErrNulByte", ptr |-> NULL]
        ELSE [heap |-> h1, tag |-> "Ok", ptr |-> Len(h) + 1]

\* expose_string: CString::new(input)? comes before malloc; on success the
\* new buffer receives size = len + 1 bytes of the CString (content, then 0).
expose_string(h, input) ==
    LET size == Len(input) + 1
    IN  IF HasNul(input)
        THEN [heap |-> h, tag |-> "ErrNulByte", ptr |-> NULL]
        ELSE LET cstring == input \o <<0>>
             IN  [heap |-> malloc(h, "bytes", SubSeq(cstring, 1, size)),
                  tag |-> "Ok",
                  ptr |-> Len(h) + 1]

\* ------------------------------------------------------------- StringArray
\* The for loop of StringArray::new: item item_idx (zero-based) is exposed and
\* its pointer stored in slot item_idx; `?` returns at the first error.
RECURSIVE NewLoop(_, _, _, _)
NewLoop(h, array_ptr, items, item_idx) ==
    IF item_idx >= Len(items) THEN [heap |-> h, tag |-> "Ok"]
    ELSE LET e == expose_string(h, items[item_idx + 1])
         IN  IF e.tag # "Ok" THEN [heap |-> e.heap, tag |-> e.tag]
             ELSE NewLoop([e.heap EXCEPT ![array_ptr].cells[item_idx + 1] = e.ptr],
                          array_ptr, items, item_idx + 1)

StringArray_new_NoTerminator(h, items) ==
    LET array_ptr == Len(h) + 1
        r == NewLoop(malloc(h, "slots", Zeros(Len(items))), array_ptr, items, 0)
    IN  [heap |-> r.heap, tag |-> r.tag, ptr |-> array_ptr]

\* StringArray::new up to its return: malloc + memset of len + 1 slots, then
\* the loop.
StringArray_new(h, items) ==
    LET array_ptr == Len(h) + 1
        r == NewLoop(malloc(h, "slots", Zeros(Len(items) + 1)), array_ptr, items, 0)
    IN  [heap |-> r.heap, tag |-> r.tag, ptr |-> array_ptr]

\* A StringArray value.  ptr, should_drop, has_dropped are its fields;
\* current_index is the field of the StringArrayIter that owns it.  The rest
\* is bookkeeping: st (where the value is), origin (new or from_raw), owner
\* (the should_drop it was created with), src (the items new was given),
\* by_hand (free() was called on it explicitly), called (free() was invoked on it, by hand or by Drop),
\* frees (calls of libc free made through this value), out (the Some items its
\* iterator returned), done (its iterator returned None), resumed (its
\* iterator returned an item after it had returned None).
Wrapper(ptr, should_drop, origin, src) ==
    [st |-> "live", ptr |-> ptr, should_drop |-> should_drop,
     has_dropped |-> FALSE, current_index |-> 0, origin |-> origin,
     owner |-> should_drop, src |-> src, by_hand |-> FALSE, called |-> FALSE, frees |-> 0, out |-> <<>>,
     done |-> FALSE, resumed |-> FALSE]

ShouldRelease_IgnoreHasDropped(w) == w.should_drop

ShouldRelease_IgnoreShouldDrop(w) == ~w.has_dropped

\* The guard of StringArray::free.
ShouldRelease(w) == w.should_drop /\ ~w.has_dropped

\* StringArray::free, its effect on the heap.
free_heap(h, w) ==
    IF ShouldRelease(w) THEN libc_free(h, w.ptr) ELSE h

\* StringArray::free, its effect on the value.
free_self(w) ==
    IF ShouldRelease(w)
    THEN [w EXCEPT !.has_dropped = TRUE, !.frees = @ + 1, !.called = TRUE]
    ELSE [w EXCEPT !.called = TRUE]

into_raw_self_KeepOwnership(w) == w

\* The body of StringArray::into_raw before self goes out of scope.
into_raw_self(w) == [w EXCEPT !.should_drop = FALSE]

Result(op, tag, val, ptr, w, pre) ==
    [op |-> op, tag |-> tag, val |-> val, ptr |-> ptr, w |-> w, pre |-> pre]

\* The program's call StringArray::new(given).
New ==
    /\ res.op = "init"
    /\ LET items == given
           r == StringArray_new(heap, items)
       IN  /\ heap' = r.heap
           /\ IF r.tag = "Ok"
              THEN /\ wr' = Append(wr, Wrapper(r.ptr, TRUE, "new", items))
                   /\ res' = Result("new", "Ok", <<>>, r.ptr, Len(wr) + 1, Len(heap))
              ELSE /\ wr' = wr
                   /\ res' = Result("new", r.tag, <<>>, NULL, 0, Len(heap))
    /\ UNCHANGED <<given, raw, arVars, sr>>

\* into_raw takes self by value: the value is dropped when it returns.
IntoRaw(w) ==
    /\ wr[w].st = "live"
    /\ LET s == into_raw_self(wr[w])
       IN  /\ heap' = free_heap(heap, s)
           /\ wr' = [wr EXCEPT ![w] = [free_self(s) EXCEPT !.st = "raw"]]
           /\ raw' = raw \cup {s.ptr}
    /\ UNCHANGED <<given, res, arVars, sr>>

from_raw_NoNullCheck(ptr, should_drop) ==
    [tag |-> "Ok", self |-> Wrapper(ptr, should_drop, "raw", <<>>)]

\* StringArray::from_raw: NonNull::new(ptr).expect(..) panics on a null
\* pointer; otherwise the value holds ptr, should_drop and has_dropped = false.
from_raw(ptr, should_drop) ==
    IF ptr = NULL
    THEN [tag |-> "Panic", self |-> Wrapper(NULL, FALSE, "raw", <<>>)]
    ELSE [tag |-> "Ok", self |-> Wrapper(ptr, should_drop, "raw", <<>>)]

FromRaw(ptr, should_drop) ==
    /\ Len(wr) < MaxWrappers
    /\ LET r == from_raw(ptr, should_drop)
       IN  IF r.tag = "Panic"
           THEN /\ wr' = wr
                /\ res' = Result("from_raw", "Panic", <<>>, NULL, 0, Len(heap))
           ELSE /\ wr' = Append(wr, r.self)
                /\ res' = res
    /\ UNCHANGED <<given, heap, raw, arVars, sr>>

Free(w) ==
    /\ wr[w].st = "live"
    /\ heap' = free_heap(heap, wr[w])
    /\ wr' = [wr EXCEPT ![w] = [free_self(@) EXCEPT !.by_hand = TRUE]]
    /\ UNCHANGED <<given, raw, res, arVars, sr>>

Drop(w) ==
    /\ wr[w].st = "live"
    /\ heap' = free_heap(heap, wr[w])
    /\ wr' = [wr EXCEPT ![w] = [free_self(@) EXCEPT !.st = "dropped"]]
    /\ UNCHANGED <<given, raw, res, arVars, sr>>

\* What `*ptr.offset(index)` can read.  A read of a slot array that was
\* already handed to libc free is undefined: it may still see the old slot or
\* see a null pointer.
ReadSlot(h, ptr, index) ==
    IF h[ptr].live THEN {h[ptr].cells[index + 1]}
    ELSE {h[ptr].cells[index + 1], NULL}

\* IntoIterator::into_iter / StringArrayIter::new.
IntoIter(w) ==
    /\ wr[w].st = "live"
    /\ wr' = [wr EXCEPT ![w].st = "iter", ![w].current_index = 0]
    /\ UNCHANGED <<given, heap, raw, res, arVars, sr>>

iter_next_AlwaysAdvance(h, w, item_ptr) ==
    IF item_ptr = NULL
    THEN [self |-> [w EXCEPT !.current_index = @ + 1],
          item |-> [tag |-> "None", val |-> <<>>]]
    ELSE [self |-> [w EXCEPT !.current_index = @ + 1],
          item |-> DecodeCStr(h[item_ptr].cells)]

iter_next_StopAtError(h, w, item_ptr) ==
    IF item_ptr = NULL \/ DecodeCStr(h[item_ptr].cells).tag # "Ok"
    THEN [self |-> w, item |-> [tag |-> "None", val |-> <<>>]]
    ELSE [self |-> [w EXCEPT !.current_index = @ + 1],
          item |-> DecodeCStr(h[item_ptr].cells)]

\* StringArrayIter::next with the slot value item_ptr it read: the new value
\* of the iterator and the item returned.
iter_next(h, w, item_ptr) ==
    IF item_ptr = NULL
    THEN [self |-> w, item |-> [tag |-> "None", val |-> <<>>]]
    ELSE [self |-> [w EXCEPT !.current_index = @ + 1],
          item |-> DecodeCStr(h[item_ptr].cells)]

IterNext(w) ==
    /\ wr[w].st = "iter"
    /\ \E item_ptr \in ReadSlot(heap, wr[w].ptr, wr[w].current_index) :
          LET r == iter_next(heap, wr[w], item_ptr)
          IN  wr' = [wr EXCEPT ![w] =
                 IF r.item.tag = "None" THEN [r.self EXCEPT !.done = TRUE]
                 ELSE [r.self EXCEPT !.out = Append(@, r.item),
                                     !.resumed = @ \/ r.self.done]]
    /\ UNCHANGED <<given, heap, raw, res, arVars, sr>>

\* The iterator goes out of scope: its array field is dropped.
IterDrop(w) ==
    /\ wr[w].st = "iter"
    /\ heap' = free_heap(heap, wr[w])
    /\ wr' = [wr EXCEPT ![w] = [free_self(@) EXCEPT !.st = "iterdropped"]]
    /\ UNCHANGED <<given, raw, res, arVars, sr>>

\* -------------------------------------------------------------- array.rs
\* The addresses foreign code stores in its array.
ItemPtrs == {1, 2}

None == [tag |-> "None", val |-> NULL]
Some(x) == [tag |-> "Some", val |-> x]

\* The arrays the safety contract of ArrayReader::new allows: non-null
\* pointers, then the null terminator, and nothing allocated after it.
TerminatedArrays == {a \o <<NULL>> : a \in SeqsUpTo(ItemPtrs, MaxLen)}

\* Index of the terminator (zero-based) of a terminated array.
Terminator(a) == Len(a) - 1

\* What `*ptr.add(index)` can read: the slot, or, past the end of the array,
\* anything (the read is outside the allocation).
ReadArray(a, index) ==
    IF index < Len(a) THEN {a[index + 1]} ELSE {NULL} \cup ItemPtrs

get_NoNullCheck(ptr) == Some(ptr)

\* ArrayReader::get with the slot value it read.
get(ptr) == IF ptr = NULL THEN None ELSE Some(ptr)

\* ArrayIter::next with the slot value it read: the new current_index and the
\* item returned.
ArrayIter_next(current_index, ptr) ==
    [current_index |-> current_index + 1, item |-> get(ptr)]

\* ArrayReader::new: NonNull::new(ptr).expect(..) panics on a null pointer.
ArrayReader_new(isNull) == IF isNull THEN "panic" ELSE "reader"

ArrayReaderNew(isNull) ==
    /\ ar.st = "none"
    /\ ar' = [ar EXCEPT !.st = ArrayReader_new(isNull)]
    /\ UNCHANGED <<given, heap, wr, raw, res, arr, yielded, touched, got, sr>>

Get(index) ==
    /\ ar.st = "reader"
    /\ \E ptr \in ReadArray(arr, index) : got' = [index |-> index, item |-> get(ptr)]
    /\ UNCHANGED <<given, heap, wr, raw, res, arr, ar, yielded, touched, sr>>

\* IntoIterator::into_iter / ArrayIter::new.
ArrayIntoIter ==
    /\ ar.st = "reader"
    /\ ar' = [st |-> "iter", current_index |-> 0]
    /\ UNCHANGED <<given, heap, wr, raw, res, arr, yielded, touched, got, sr>>

ArrayNext ==
    /\ ar.st = "iter"
    /\ ar.current_index <= Terminator(arr) + MaxPast
    /\ \E ptr \in ReadArray(arr, ar.current_index) :
          LET r == ArrayIter_next(ar.current_index, ptr)
          IN  /\ ar' = [ar EXCEPT !.current_index = r.current_index]
              /\ yielded' = Append(yielded, r.item)
    /\ touched' = touched \cup {ar.current_index}
    /\ UNCHANGED <<given, heap, wr, raw, res, arr, got, sr>>

InitMem ==
    /\ heap = <<>>
    /\ wr = <<>>
    /\ raw = {}
    /\ res = Result("init", "Ok", <<>>, NULL, 0, 0)

InitArray ==
    /\ ar = [st |-> "none", current_index |-> 0]
    /\ yielded = <<>>
    /\ touched = {}
    /\ got = [index |-> 0, item |-> None]

InitReader == sr = [st |-> "none", max_length |-> 0, buf |-> NULL, spill |-> <<>>]

\* The ownership specification: one array, built from one of OwnedLists, and
\* every StringArray value made around it.
Init == given \in OwnedLists /\ InitMem /\ arr = <<NULL>> /\ InitArray /\ InitReader

Next ==
    \/ New
    \/ \E w \in DOMAIN wr : IntoRaw(w)
    \/ \E p \in raw \cup {NULL}, d \in BOOLEAN : FromRaw(p, d)
    \/ \E w \in DOMAIN wr : Free(w)
    \/ \E w \in DOMAIN wr : Drop(w)
    \/ \E w \in DOMAIN wr : IntoIter(w)
    \/ \E w \in DOMAIN wr : IterNext(w)
    \/ \E w \in DOMAIN wr : IterDrop(w)

Spec == Init /\ [][Next]_vars

\* The construction specification: one array built from any item list, and
\* the one StringArray value new returns.
InitNew == given \in ItemLists /\ InitMem /\ arr = <<NULL>> /\ InitArray /\ InitReader

NextNew ==
    \/ New
    \/ \E w \in DOMAIN wr : Free(w)
    \/ \E w \in DOMAIN wr : Drop(w)
    \/ \E w \in DOMAIN wr : IntoIter(w)
    \/ \E w \in DOMAIN wr : IterNext(w)
    \/ \E w \in DOMAIN wr : IterDrop(w)

SpecNew == InitNew /\ [][NextNew]_vars

\* The constructor specification: the array new builds, its hand-over by
\* into_raw, and the constructors that take a raw pointer.
NextCtor ==
    \/ New
    \/ \E w \in DOMAIN wr : IntoRaw(w)
    \/ \E p \in raw \cup {NULL}, d \in BOOLEAN : FromRaw(p, d)
    \/ \E w \in DOMAIN wr : Free(w)
    \/ \E isNull \in BOOLEAN : ArrayReaderNew(isNull)

SpecCtor == Init /\ [][NextCtor]_vars

\* The strings of the arrays foreign code builds: any bytes but zero, so
\* also ill-formed UTF-8 (169 alone, 195 alone, 195 followed by 97).
ForeignStrs == {<<>>, <<97>>, <<169>>, <<195>>, <<195, 169>>, <<195, 97>>}
ForeignLists == SeqsUpTo(ForeignStrs, MaxItems)

\* The heap after foreign code has built a null-terminated array of the
\* strings of items: the slot array at address 1, the string of slot i at
\* address i + 2.
ForeignHeap(items) ==
    <<[kind |-> "slots",
       cells |-> [i \in 1..(Len(items) + 1) |-> IF i <= Len(items) THEN i + 1 ELSE NULL],
       live |-> TRUE, frees |-> 0]>>
    \o [i \in 1..Len(items) |->
          [kind |-> "bytes", cells |-> items[i] \o <<0>>, live |-> TRUE, frees |-> 0]]

\* The foreign specification: an array built by foreign code and handed over
\* as a raw pointer, and the StringArray value the program has made around it
\* with from_raw, with either should_drop.
InitForeign ==
    /\ given = <<>>
    /\ \E items \in ForeignLists : heap = ForeignHeap(items)
    /\ \E d \in BOOLEAN : wr = <<from_raw(1, d).self>>
    /\ raw = {1}
    /\ res = Result("init", "Ok", <<>>, NULL, 0, 0)
    /\ arr = <<NULL>> /\ InitArray /\ InitReader

NextForeign ==
    \/ \E w \in DOMAIN wr : Free(w)
    \/ \E w \in DOMAIN wr : Drop(w)
    \/ \E w \in DOMAIN wr : IntoIter(w)
    \/ \E w \in DOMAIN wr : IterNext(w)
    \/ \E w \in DOMAIN wr : IterDrop(w)

SpecForeign == InitForeign /\ [][NextForeign]_vars

InitArr ==
    /\ given = <<>> /\ InitMem /\ InitReader
    /\ arr \in TerminatedArrays
    /\ InitArray

NextArr ==
    \/ \E isNull \in BOOLEAN : ArrayReaderNew(isNull)
    \/ \E index \in 0..MaxLen : Get(index)
    \/ ArrayIntoIter
    \/ ArrayNext

SpecArr == InitArr /\ [][NextArr]_vars

\* C6: over n non-null pointers followed by a null pointer the iterator
\* yields those n pointers in index order and then None.
C6_YieldsAllThenNone ==
    \A k \in 1..Len(yielded) :
        /\ (k <= Terminator(arr) => yielded[k] = Some(arr[k]))
        /\ (k = Terminator(arr) + 1 => yielded[k] = None)

C6_Witness ==
    /\ Terminator(arr) = MaxLen
    /\ Len(yielded) = MaxLen + 1
    /\ arr[1] # arr[2]

\* C7: no call of next(), the calls after None included, reads a slot past
\* the terminator.
C7_NoReadPastTerminator ==
    \A i \in touched : i <= Terminator(arr)

\* ------------------------------------------------- expose_string, called
\* A call expose_string(input) by the program; res.w counts the calls.
Expose(input) ==
    /\ res.w < MaxExposed
    /\ LET e == expose_string(heap, input)
       IN  /\ heap' = e.heap
           /\ res' = Result("expose", e.tag, input, e.ptr, res.w + 1, Len(heap))
    /\ UNCHANGED <<given, wr, raw, arVars, sr>>

InitExp ==
    /\ given = <<>> /\ InitMem /\ InitReader
    /\ arr = <<NULL>> /\ InitArray

NextExp == \E input \in SeqsUpTo(Bytes, MaxStrLen) : Expose(input)

SpecExp == InitExp /\ [][NextExp]_vars

\* ------------------------------------------------------------ StringReader
\* A byte of a buffer that was allocated and not written.
Uninit == 0 - 1

\* StringReader::new: Vec::with_capacity(max_length) reserves max_length
\* bytes and initialises none (for max_length = 0 it reserves nothing: the
\* block has no byte).
StringReader_new(h, max_length) ==
    malloc(h, "vec", [i \in 1..max_length |-> Uninit])

ReaderNew(max_length) ==
    /\ sr.st = "none"
    /\ heap' = StringReader_new(heap, max_length)
    /\ sr' = [st |-> "new", max_length |-> max_length, buf |-> Len(heap) + 1,
              spill |-> <<>>]
    /\ UNCHANGED <<given, wr, raw, res, arVars>>

\* Foreign code stores the string s and its terminator through get_target().
\* The bytes that fit go into the buffer; spill is what was stored past its
\* end.
ForeignWrite(s) ==
    /\ sr.st = "new"
    /\ Len(s) <= sr.max_length
    /\ LET data == s \o <<0>>
           cap == Len(heap[sr.buf].cells)
       IN  /\ heap' = [heap EXCEPT ![sr.buf].cells =
                         [i \in 1..cap |-> IF i <= Len(data) THEN data[i] ELSE Uninit]]
           /\ sr' = [sr EXCEPT !.st = "written",
                               !.spill = SubSeq(data, cap + 1, Len(data))]
    /\ UNCHANGED <<given, wr, raw, res, arVars>>

\* What CStr::from_ptr(ptr).to_str() can give.  When the terminator lies in
\* the buffer the bytes before it are decoded.  When nothing was written, or
\* the terminator was stored past the end of the buffer, the read is
\* undefined: it may see the bytes as they were stored, or anything else.
ReadTarget(h, r) ==
    IF r.st = "written" /\ r.spill = <<>>
    THEN {DecodeCStr(h[r.buf].cells)}
    ELSE {DecodeCStr(SelectSeq(h[r.buf].cells, LAMBDA x : x # Uninit) \o r.spill \o <<0>>),
          [tag |-> "Ok", val |-> <<>>],
          [tag |-> "ErrUtf8", val |-> <<>>]}

\* StringReader::into_string_opt with the outcome of decoding: a null buffer
\* pointer gives None.
into_string_opt(ptr, decoded) ==
    IF ptr = NULL THEN [tag |-> "None", val |-> <<>>] ELSE decoded

\* StringReader::into_string: None becomes Error::Null.
into_string(ptr, decoded) ==
    LET r == into_string_opt(ptr, decoded)
    IN  IF r.tag = "None" THEN [tag |-> "ErrNull", val |-> <<>>] ELSE r

\* mem::forget(self.buf): the buffer is not released.
IntoStringOpt ==
    /\ sr.st \in {"new", "written"}
    /\ \E d \in ReadTarget(heap, sr) :
          LET r == into_string_opt(sr.buf, d)
          IN  res' = Result("into_string_opt", r.tag, r.val, sr.buf, 0, Len(heap))
    /\ sr' = [sr EXCEPT !.st = "consumed"]
    /\ UNCHANGED <<given, heap, wr, raw, arVars>>

IntoString ==
    /\ sr.st \in {"new", "written"}
    /\ \E d \in ReadTarget(heap, sr) :
          LET r == into_string(sr.buf, d)
          IN  res' = Result("into_string", r.tag, r.val, sr.buf, 0, Len(heap))
    /\ sr' = [sr EXCEPT !.st = "consumed"]
    /\ UNCHANGED <<given, heap, wr, raw, arVars>>

InitRd ==
    /\ given = <<>> /\ InitMem /\ InitReader
    /\ arr = <<NULL>> /\ InitArray

NextRd ==
    \/ \E max_length \in 0..MaxCap : ReaderNew(max_length)
    \/ \E s \in SeqsUpTo(Bytes \ {0}, MaxCap) : ForeignWrite(s)
    \/ IntoStringOpt
    \/ IntoString

SpecRd == InitRd /\ [][NextRd]_vars

\* ------------------------------------------------------------ properties
Ok(b) == [tag |-> "Ok", val |-> b]

\* The StringArray values other than w that were created by from_raw with
\* should_drop = true around the same slot array.
OtherOwners(w) ==
    {v \in DOMAIN wr : v # w /\ wr[v].ptr = wr[w].ptr /\ wr[v].origin = "raw" /\ wr[v].owner}

\* The value new returned for the slot array of w, when it was not freed by
\* hand before it was handed out.
CleanOrigin(w) ==
    \A o \in DOMAIN wr :
        (wr[o].origin = "new" /\ wr[o].ptr = wr[w].ptr /\ o # w)
            => (wr[o].st = "raw" /\ ~wr[o].by_hand)

\* C1: a StringArray with should_drop = true on which free() has run, any
\* number of times, explicitly or through Drop, has has_dropped = true and
\* has called libc free on its slot array exactly once; when it is the only
\* value around that array (new made it and into_raw never gave it away) the
\* array itself was deallocated exactly once.
C1_FreeIsIdempotent ==
    \A w \in DOMAIN wr :
        (wr[w].should_drop /\ wr[w].called)
            => /\ wr[w].has_dropped
               /\ wr[w].frees = 1
               /\ (wr[w].origin = "new"
                      => ~heap[wr[w].ptr].live /\ heap[wr[w].ptr].frees = 1)

\* free() was called by hand and then the value went out of scope.
C1_Witness ==
    \E w \in DOMAIN wr :
        /\ wr[w].st = "dropped" /\ wr[w].by_hand /\ wr[w].should_drop
        /\ wr[w].origin = "new" /\ heap[wr[w].ptr].frees = 1

\* C2: new, into_raw, from_raw(ptr, true), then iteration to exhaustion and
\* the drop of the iterator: the items yielded are Ok of the items given to
\* new, in order, and the slot array was deallocated exactly once, by the
\* reconstructed value.
C2_RawRoundTrip ==
    \A w \in DOMAIN wr :
        (/\ wr[w].origin = "raw" /\ wr[w].owner
         /\ wr[w].st = "iterdropped" /\ wr[w].done /\ ~wr[w].by_hand
         /\ OtherOwners(w) = {}
         /\ CleanOrigin(w))
            => /\ wr[w].out = [i \in 1..Len(given) |-> Ok(given[i])]
               /\ ~wr[w].resumed
               /\ wr[w].frees = 1
               /\ heap[wr[w].ptr].frees = 1
               /\ ~heap[wr[w].ptr].live
               /\ \A o \in DOMAIN wr : o # w /\ wr[o].ptr = wr[w].ptr => wr[o].frees = 0

C2_Witness ==
    \E w \in DOMAIN wr :
        /\ wr[w].origin = "raw" /\ wr[w].owner
        /\ wr[w].st = "iterdropped" /\ wr[w].done /\ ~wr[w].by_hand
        /\ OtherOwners(w) = {} /\ CleanOrigin(w)
        /\ Len(wr[w].out) = 2 /\ wr[w].out[1] # wr[w].out[2]

\* C3: a value made by from_raw(ptr, false) never deallocates: whatever is
\* done with it, its has_dropped stays false and it never calls libc free.  A
\* value made by from_raw(ptr, true) that was released has has_dropped = true
\* and called libc free exactly once; when no other owner was made and the
\* array was not freed before it was handed out, the array was deallocated
\* exactly once.
C3_DisownedNeverFrees ==
    \A w \in DOMAIN wr :
        /\ (wr[w].origin = "raw" /\ ~wr[w].owner)
              => ~wr[w].has_dropped /\ wr[w].frees = 0
        /\ (wr[w].origin = "raw" /\ wr[w].owner /\ wr[w].should_drop /\ wr[w].called)
              => /\ wr[w].has_dropped
                 /\ wr[w].frees = 1
                 /\ (OtherOwners(w) = {} /\ CleanOrigin(w)
                        => heap[wr[w].ptr].frees = 1 /\ ~heap[wr[w].ptr].live)

\* from_raw(ptr, false), free() and scope end, then from_raw(ptr, true) and
\* release.
C3_Witness ==
    \E w, v \in DOMAIN wr :
        /\ w < v /\ wr[w].ptr = wr[v].ptr
        /\ wr[w].origin = "raw" /\ ~wr[w].owner /\ wr[w].by_hand /\ wr[w].st = "dropped"
        /\ wr[v].origin = "raw" /\ wr[v].owner /\ wr[v].by_hand /\ wr[v].has_dropped
        /\ heap[wr[v].ptr].frees = 1

\* The element buffers new allocated for the array of w.
ElementBuffers(w) ==
    {heap[wr[w].ptr].cells[i] : i \in 1..Len(wr[w].src)}

\* C4: once a value made by new has been released, every element buffer new
\* allocated through expose_string has been deallocated exactly once.
C4_ElementsReleased ==
    \A w \in DOMAIN wr :
        (wr[w].origin = "new" /\ wr[w].has_dropped)
            => \A e \in ElementBuffers(w) : ~heap[e].live /\ heap[e].frees = 1

HasNulItem(items) == \E i \in DOMAIN items : HasNul(items[i])

\* C8: for items without zero bytes new succeeds, returns a value with
\* should_drop = true and has_dropped = false, builds count + 1 slots, the
\* last one null and the first count pointing, in order, to buffers that hold
\* the items and a terminator; iteration of the (unfreed) value yields Ok of
\* the items in order and then None.
C8_NewRoundTrip ==
    (~HasNulItem(given) /\ res.op = "new")
        => /\ res.tag = "Ok"
           /\ Len(wr) = 1
           /\ LET w == wr[1]
                  cells == heap[w.ptr].cells
              IN  /\ (w.st = "live" /\ ~w.called => w.should_drop /\ ~w.has_dropped)
                  /\ Len(cells) = Len(given) + 1
                  /\ cells[Len(cells)] = NULL
                  /\ \A i \in 1..Len(given) :
                        /\ cells[i] # NULL
                        /\ heap[cells[i]].cells = given[i] \o <<0>>
                        /\ \A j \in 1..Len(given) : cells[i] = cells[j] => i = j
                  /\ (~w.by_hand
                        => /\ Len(w.out) <= Len(given)
                           /\ w.current_index = Len(w.out)
                           /\ \A i \in 1..Len(w.out) : w.out[i] = Ok(given[i])
                           /\ (w.done => Len(w.out) = Len(given))
                           /\ ~w.resumed)

C8_Witness ==
    /\ ~HasNulItem(given) /\ res.op = "new" /\ Len(wr) = 1
    /\ wr[1].done /\ ~wr[1].by_hand /\ Len(wr[1].out) = MaxItems
    /\ wr[1].out[1] # wr[1].out[2]
    /\ \E i \in 1..Len(given) : given[i] = <<>>

\* C10: when an item holds a zero byte new returns NulByte and no value, and
\* nothing it allocated is still allocated.
C10_FailedNewLeaksNothing ==
    (HasNulItem(given) /\ res.op = "new")
        => /\ res.tag = "ErrNulByte"
           /\ wr = <<>>
           /\ \A a \in DOMAIN heap : ~heap[a].live

\* C5: a writer that stores a string of at most max_length bytes and its
\* terminator through the target pointer stays inside the reader's buffer,
\* which holds at least max_length + 1 bytes.
C5_WriteStaysInBuffer ==
    sr.st = "written"
        => /\ Len(heap[sr.buf].cells) >= sr.max_length + 1
           /\ sr.spill = <<>>

\* C9: on an input with a zero byte expose_string returns NulByte and
\* allocates nothing; on any other input it allocates one buffer of len + 1
\* bytes: the input, then one zero byte.
C9_ExposeString ==
    res.op = "expose"
        => IF HasNul(res.val)
           THEN /\ res.tag = "ErrNulByte"
                /\ Len(heap) = res.pre
           ELSE /\ res.tag = "Ok"
                /\ Len(heap) = res.pre + 1
                /\ res.ptr = Len(heap)
                /\ heap[res.ptr].live
                /\ Len(heap[res.ptr].cells) = Len(res.val) + 1
                /\ heap[res.ptr].cells = res.val \o <<0>>

\* A failed call after a successful one of the longest input.
C9_Witness ==
    /\ res.op = "expose" /\ HasNul(res.val) /\ res.tag = "ErrNulByte"
    /\ Len(heap) = 1 /\ Len(heap[1].cells) = MaxStrLen + 1

\* The bytes foreign code stored through the target pointer, terminator
\* included (empty when nothing was stored).
Stored(h, r) == SelectSeq(h[r.buf].cells, LAMBDA x : x # Uninit) \o r.spill

\* C11: consuming a StringReader (into_string or into_string_opt) releases
\* the buffer allocated at construction exactly once: after the call it is
\* no longer allocated.
C11_ConsumeReleasesBuffer ==
    (sr.st = "consumed" /\ sr.max_length > 0 /\ Stored(heap, sr) # <<>>)
        => ~heap[sr.buf].live /\ heap[sr.buf].frees = 1

C12_NullPanics ==
    [][/\ \A d \in BOOLEAN :
            FromRaw(NULL, d) => wr' = wr /\ res'.op = "from_raw" /\ res'.tag = "Panic"
       /\ \A p \in raw, d \in BOOLEAN :
            FromRaw(p, d)
                => /\ Len(wr') = Len(wr) + 1
                   /\ res' = res
                   /\ \A w \in DOMAIN wr : wr'[w] = wr[w]
                   /\ wr'[Len(wr')].st = "live"
                   /\ wr'[Len(wr')].ptr = p
                   /\ wr'[Len(wr')].should_drop = d
                   /\ wr'[Len(wr')].has_dropped = FALSE
       /\ (ArrayReaderNew(TRUE) => ar'.st = "panic")
       /\ (ArrayReaderNew(FALSE) => ar'.st = "reader")]_vars

\* Both constructors have panicked on a null pointer, and from_raw has made
\* a value with each should_drop around the pointer into_raw returned.
C12_Witness ==
    /\ res.op = "from_raw" /\ res.tag = "Panic"
    /\ ar.st = "panic"
    /\ \E w, v \in DOMAIN wr :
          /\ wr[w].origin = "raw" /\ wr[w].should_drop
          /\ wr[v].origin = "raw" /\ ~wr[v].should_drop
          /\ wr[w].ptr = wr[v].ptr /\ wr[w].ptr \in raw

\* Index (zero-based) of the first null slot of a slot array.
FirstNull(cells) ==
    CHOOSE i \in 0..(Len(cells) - 1) :
        cells[i + 1] = NULL /\ \A j \in 0..(i - 1) : cells[j + 1] # NULL

\* The iterators that have only read a slot array that was still allocated.
SoundIters == {w \in DOMAIN wr : wr[w].st = "iter" /\ heap[wr[w].ptr].live}

\* C14: the index of a StringArrayIter advances only past non-null slots it
\* has yielded, never past the first null slot; once next() has returned None
\* the index is that of the terminator and no later call yields an item.
C14_IterStopsAtTerminator ==
    \A w \in SoundIters :
        LET cells == heap[wr[w].ptr].cells
        IN  /\ wr[w].current_index = Len(wr[w].out)
            /\ wr[w].current_index <= FirstNull(cells)
            /\ \A i \in 1..wr[w].current_index : cells[i] # NULL
            /\ (wr[w].done => wr[w].current_index = FirstNull(cells))
            /\ ~wr[w].resumed

\* An iterator over the longest array has returned None.
C14_Witness ==
    \E w \in SoundIters :
        /\ wr[w].done /\ wr[w].current_index = MaxItems
        /\ Len(heap[wr[w].ptr].cells) = MaxItems + 1

\* C15: a slot whose bytes are not well-formed UTF-8 yields Err(Utf8) for
\* that slot only; every slot before the first null one yields its own
\* decoding, in order, and the items yielded are as many as those slots.
C15_ErrorDoesNotEndIteration ==
    \A w \in SoundIters :
        LET cells == heap[wr[w].ptr].cells
        IN  /\ Len(wr[w].out) <= FirstNull(cells)
            /\ \A i \in 1..Len(wr[w].out) :
                  wr[w].out[i] = DecodeCStr(heap[cells[i]].cells)
            /\ (wr[w].done => Len(wr[w].out) = FirstNull(cells))

\* An iterator yielded an error for the first slot, the string of the second
\* slot, and then None.
C15_Witness ==
    \E w \in SoundIters :
        /\ wr[w].done /\ Len(wr[w].out) = 2
        /\ wr[w].out[1].tag = "ErrUtf8"
        /\ wr[w].out[2] = Ok(<<97>>)

\* C16: under any sequence of new, from_raw, free, into_raw and Drop the
\* pair (should_drop, has_dropped) of a StringArray is never (false, true),
\* and has_dropped never goes from true back to false.
C16_FlagStateMachine ==
    [][\A w \in DOMAIN wr' :
          /\ ~(~wr'[w].should_drop /\ wr'[w].has_dropped)
          /\ (w \in DOMAIN wr /\ wr[w].has_dropped => wr'[w].has_dropped)]_vars

\* C17: no use after release through one value: into_raw never returns, and
\* the iterator never reads, a slot array that the value's own free() has
\* deallocated.
C17_NoUseAfterOwnFree ==
    \A w \in DOMAIN wr :
        /\ ~(wr[w].st = "raw" /\ wr[w].has_dropped)
        /\ ~(wr[w].st = "iter" /\ wr[w].has_dropped
                /\ (wr[w].done \/ wr[w].out # <<>>))

\* C18: into_raw returns the value's own slot-array pointer and touches no
\* memory: neither it nor the drop of the consumed value that follows calls
\* libc free or changes a block, so the pointer returned by a value that was
\* not freed (and was the only one around its array) refers to an allocated,
\* unchanged array.
C18_IntoRawKeepsMemory ==
    [][\A w \in DOMAIN wr :
          IntoRaw(w)
              => /\ heap' = heap
                 /\ raw' = raw \cup {wr[w].ptr}
                 /\ wr'[w].ptr = wr[w].ptr
                 /\ wr'[w].frees = wr[w].frees
                 /\ wr'[w].has_dropped = wr[w].has_dropped
                 /\ ((wr[w].origin = "new" /\ ~wr[w].has_dropped)
                        => heap'[wr[w].ptr].live /\ heap'[wr[w].ptr].frees = 0)]_vars

\* A value new made over two items was handed out unfreed: its array is
\* allocated and its slots still point to the buffers of the items.
C18_Witness ==
    \E w \in DOMAIN wr :
        /\ wr[w].st = "raw" /\ wr[w].origin = "new" /\ ~wr[w].has_dropped
        /\ wr[w].ptr \in raw
        /\ heap[wr[w].ptr].live
        /\ Len(wr[w].src) = 2
        /\ \A i \in 1..2 : heap[heap[wr[w].ptr].cells[i]].cells = wr[w].src[i] \o <<0>>

====
